---- MODULE Spec2Model ----
(***************************************************************************)
(* The ConnectionManager of agniapi-framework/examples/websocket_example.py *)
(* as a state machine.  The hub keeps two Python lists, active_connections  *)
(* (the Registry) and one list per room in the ordered dict rooms.  Every   *)
(* coroutine of the manager runs on one asyncio loop: a step of the model   *)
(* is the code executed between two suspensions.  The manager suspends in   *)
(* the awaits of send_json, and in the accept of connect before it touches  *)
(* any list.                                                                *)
(***************************************************************************)
EXTENDS Integers, Sequences, FiniteSets, TLC

\* WebSocket handles and room names the callers may use.
Conns == {"A", "B"}
Rooms == {"general", "tech"}
None == "None"

\* Bounds of the exploration: connect is called while the Registry holds fewer
\* than MaxConnections entries, and at most MaxOverlaps calls are made while
\* another coroutine of the manager is still in flight.  SpecWide explores
\* the same actions within the Wide bounds.
MaxConnections == 2
MaxOverlaps == 1
WideConnections == 3
WideOverlaps == 1

VARIABLES
    active_connections,  \* self.active_connections : List[WebSocket]
    rooms,               \* self.rooms : Dict[str, List[WebSocket]], in insertion order
    dead,                \* handles whose send_json raises
    tasks,               \* coroutines of broadcast_to_room / broadcast_to_all in flight, in creation order
    returned,            \* the call that has just returned to its caller
    overlaps,            \* calls made so far while a coroutine of the manager was in flight
    hung,                \* handles whose send_json never completes
    owner,               \* per handle, where its websocket_endpoint task is
    websocket_connections, \* full_featured_api: the module-level list websocket_connections
    handler,             \* full_featured_api: per handle, where its websocket_chat task is
    overview             \* full_featured_api: the dict analytics_overview returned last

vars == <<active_connections, rooms, dead, tasks, returned, overlaps, hung, owner,
          websocket_connections, handler, overview>>

\* The state of the ConnectionManager application (websocket_example.py)
hub_vars == <<active_connections, rooms, tasks, returned, overlaps, hung, owner>>

\* The state of the chat of full_featured_api.py
chat_vars == <<websocket_connections, handler, overview>>

--------------------------------------------------------------------------
\* Python list operations used by the manager.

\* x in list
Contains(list, x) == \E i \in 1..Len(list) : list[i] = x

\* list.index(x)
IndexOf(list, x) ==
    CHOOSE i \in 1..Len(list) : list[i] = x /\ \A j \in 1..(i - 1) : list[j] # x

\* list.remove(x): deletes the first occurrence only
Remove(list, x) ==
    LET i == IndexOf(list, x)
    IN  SubSeq(list, 1, i - 1) \o SubSeq(list, i + 1, Len(list))

Count(list, x) == Cardinality({i \in 1..Len(list) : list[i] = x})

Elems(list) == {list[i] : i \in 1..Len(list)}

RemoveAt(list, i) == SubSeq(list, 1, i - 1) \o SubSeq(list, i + 1, Len(list))

\* room in self.rooms
HasRoom(rs, room) == \E i \in 1..Len(rs) : rs[i].room = room

RoomIndex(rs, room) == CHOOSE i \in 1..Len(rs) : rs[i].room = room

\* self.rooms[room]
RoomList(rs, room) == rs[RoomIndex(rs, room)].connections

\* self.rooms.get(room, [])
RoomListOrEmpty(rs, room) == IF HasRoom(rs, room) THEN RoomList(rs, room) ELSE <<>>

--------------------------------------------------------------------------
\* The shapes of the dicts the two reads return.
NoInfo == [room |-> None, connections |-> 0, active |-> FALSE]

NoStats == [total_connections |-> 0, rooms |-> <<>>]

\* A call of the manager: the coroutine frame of a broadcast, or the record
\* of a call that ran to completion in one step.
NewCall(kind, pc, ws, room, type, count, exclude) ==
    [kind         |-> kind,       \* "join", "room", "all", "left", "disconnect", "personal", "none"
     pc           |-> pc,         \* "scheduled", "sending", "hung", "done", "idle"
     ws           |-> ws,         \* the websocket argument of connect / disconnect / send_personal_message,
                                  \* or the websocket of the endpoint that called the broadcast
     room         |-> room,
     message      |-> [type |-> type, room |-> room, connections |-> count],
     exclude      |-> exclude,
     it           |-> 0,          \* items consumed by the list iterator of the for loop
     disconnected |-> <<>>,       \* the local list disconnected
     snapshot     |-> <<>>,       \* the target list as it was when the loop was entered
                                  \* (disconnect: the Registry as it was when called)
     remaining    |-> <<>>,       \* user_left: the room's list right after the removal
     attempted    |-> <<>>,       \* handles send_json was called on, in order
     delivered    |-> <<>>,       \* handles whose send_json returned normally
     failed       |-> FALSE,      \* send_personal_message: send_json raised
     result       |-> None,       \* what the call handed to its caller
     info         |-> NoInfo,     \* the dict get_room_info returned
     stats        |-> NoStats]    \* the dict get_stats returned (without the timestamp)

NoCall == NewCall("none", "idle", None, None, None, 0, None)

\* websocket.accept(): the handshake of a handle that is still open succeeds.
accept(ws) == ws \notin dead

\* connection.send_json(message) returns normally unless the peer is gone.
send_json(ws) == ws \notin dead

\* connection.send_json(message) neither returns nor raises: the peer has
\* stopped reading and the transport buffer is full.
send_hangs(ws) == ws \in hung

\* A handle no websocket_endpoint task has been started for; chats counts the
\* chat messages its task has broadcast.
NoOwner == [pc |-> "none", room |-> None, chats |-> 0]

--------------------------------------------------------------------------
\* disconnect(websocket) on the hub h = [ac, rs, tk]: ac the Registry, rs the
\* rooms, tk the tasks of the loop.
Indices(n) == [i \in 1..n |-> i]

\* A disconnect that schedules the user_left broadcast for every room, whether
\* or not the websocket was in it.
disconnect_notify_all(h, ws) ==
    LET ac == IF Contains(h.ac, ws) THEN Remove(h.ac, ws) ELSE h.ac
        rs == [i \in 1..Len(h.rs) |->
                  IF Contains(h.rs[i].connections, ws)
                  THEN [h.rs[i] EXCEPT !.connections = Remove(@, ws)]
                  ELSE h.rs[i]]
        created == [k \in 1..Len(rs) |->
                      [NewCall("left", "scheduled", ws, rs[k].room, "user_left",
                               Len(rs[k].connections), None)
                          EXCEPT !.remaining = rs[k].connections]]
    IN  [ac |-> ac, rs |-> rs, tk |-> h.tk \o created]

\* A disconnect that awaits the user_left broadcast instead of handing it to
\* asyncio.create_task: the sends are made before it returns.
disconnect_inline(h, ws) ==
    LET ac == IF Contains(h.ac, ws) THEN Remove(h.ac, ws) ELSE h.ac
        rs == [i \in 1..Len(h.rs) |->
                  IF Contains(h.rs[i].connections, ws)
                  THEN [h.rs[i] EXCEPT !.connections = Remove(@, ws)]
                  ELSE h.rs[i]]
        changed == SelectSeq(Indices(Len(h.rs)),
                             LAMBDA i : Contains(h.rs[i].connections, ws))
        created == [k \in 1..Len(changed) |->
                      [NewCall("left", "done", ws, rs[changed[k]].room, "user_left",
                               Len(rs[changed[k]].connections), None)
                          EXCEPT !.remaining = rs[changed[k]].connections,
                                 !.attempted = rs[changed[k]].connections]]
    IN  [ac |-> ac, rs |-> rs, tk |-> h.tk \o created]

\* A disconnect that takes the handle out of the rooms and leaves the Registry
\* as it is.
disconnect_rooms_only(h, ws) ==
    LET rs == [i \in 1..Len(h.rs) |->
                  IF Contains(h.rs[i].connections, ws)
                  THEN [h.rs[i] EXCEPT !.connections = Remove(@, ws)]
                  ELSE h.rs[i]]
        changed == SelectSeq(Indices(Len(h.rs)),
                             LAMBDA i : Contains(h.rs[i].connections, ws))
        created == [k \in 1..Len(changed) |->
                      [NewCall("left", "scheduled", ws, rs[changed[k]].room, "user_left",
                               Len(rs[changed[k]].connections), None)
                          EXCEPT !.remaining = rs[changed[k]].connections]]
    IN  [ac |-> h.ac, rs |-> rs, tk |-> h.tk \o created]

disconnect(h, ws) ==
    LET ac == IF Contains(h.ac, ws) THEN Remove(h.ac, ws) ELSE h.ac
        rs == [i \in 1..Len(h.rs) |->
                  IF Contains(h.rs[i].connections, ws)
                  THEN [h.rs[i] EXCEPT !.connections = Remove(@, ws)]
                  ELSE h.rs[i]]
        changed == SelectSeq(Indices(Len(h.rs)),
                             LAMBDA i : Contains(h.rs[i].connections, ws))
        created == [k \in 1..Len(changed) |->
                      [NewCall("left", "scheduled", ws, rs[changed[k]].room, "user_left",
                               Len(rs[changed[k]].connections), None)
                          EXCEPT !.remaining = rs[changed[k]].connections]]
    IN  [ac |-> ac, rs |-> rs, tk |-> h.tk \o created]

\* for connection in disconnected: self.disconnect(connection)
RECURSIVE disconnect_each(_, _)
disconnect_each(h, list) ==
    IF list = <<>> THEN h
    ELSE disconnect_each(disconnect(h, Head(list)), Tail(list))

--------------------------------------------------------------------------
\* The for loop of broadcast_to_room / broadcast_to_all.

\* A room broadcast that iterates the Registry instead of the room's list.
Target_registry(t, ac, rs) == ac

\* The list object the loop iterates: the live list, not a copy.
Target(t, ac, rs) == IF t.kind = "all" THEN ac ELSE RoomList(rs, t.room)

\* Next index the iterator yields that is not skipped by `continue`; 0 when
\* the iterator is exhausted.
NextIt(list, it, exclude) ==
    IF \E j \in (it + 1)..Len(list) : list[j] # exclude
    THEN CHOOSE j \in (it + 1)..Len(list) :
            list[j] # exclude /\ \A k \in (it + 1)..(j - 1) : list[k] = exclude
    ELSE 0

\* await connection.send_json(message) never completes: the coroutine stays
\* suspended in the loop body.
OnSendHung(t, c) ==
    [t EXCEPT !.attempted = Append(@, c), !.pc = "hung"]

\* try: await connection.send_json(message)
OnSendOk(t, c) ==
    [t EXCEPT !.attempted = Append(@, c), !.delivered = Append(@, c)]

\* except: disconnected.append(connection)
OnSendFail(t, c) ==
    [t EXCEPT !.attempted = Append(@, c), !.disconnected = Append(@, c)]

\* A loop without the try/except around send_json: the first failing send
\* ends the call with the error, and the members after it are not visited.
broadcast_step_abort(t, h) ==
    LET list == Target(t, h.ac, h.rs)
        j == NextIt(list, t.it, t.exclude)
    IN  IF j = 0
        THEN [task |-> [t EXCEPT !.pc = "done"],
              h |-> disconnect_each(h, t.disconnected)]
        ELSE IF send_hangs(list[j])
        THEN [task |-> [OnSendHung(t, list[j]) EXCEPT !.it = j], h |-> h]
        ELSE IF send_json(list[j])
        THEN [task |-> [OnSendOk(t, list[j]) EXCEPT !.it = j, !.pc = "sending"],
              h |-> h]
        ELSE [task |-> [OnSendFail(t, list[j])
                            EXCEPT !.it = j, !.pc = "done", !.result = "SendError"],
              h |-> h]

\* One resumption of the loop: up to the next send_json, or, when the
\* iterator is exhausted, through the cleanup loop to the return.
broadcast_step(t, h) ==
    LET list == Target(t, h.ac, h.rs)
        j == NextIt(list, t.it, t.exclude)
    IN  IF j = 0
        THEN [task |-> [t EXCEPT !.pc = "done"],
              h |-> disconnect_each(h, t.disconnected)]
        ELSE IF send_hangs(list[j])
        THEN [task |-> [OnSendHung(t, list[j]) EXCEPT !.it = j], h |-> h]
        ELSE [task |-> [(IF send_json(list[j]) THEN OnSendOk(t, list[j])
                                               ELSE OnSendFail(t, list[j]))
                            EXCEPT !.it = j, !.pc = "sending"],
              h |-> h]

\* A broadcast_to_room that creates the entry of an unknown room
\* (self.rooms.setdefault(room, [])) instead of returning.
broadcast_begin_setdefault(t, h) ==
    IF t.kind # "all" /\ ~HasRoom(h.rs, t.room)
    THEN [task |-> [t EXCEPT !.pc = "done"],
          h |-> [h EXCEPT !.rs = Append(@, [room |-> t.room, connections |-> <<>>])]]
    ELSE broadcast_step([t EXCEPT !.snapshot = Target(t, h.ac, h.rs)], h)

\* Entry of the coroutine: the room test of broadcast_to_room, then the loop.
broadcast_begin(t, h) ==
    IF t.kind # "all" /\ ~HasRoom(h.rs, t.room)
    THEN [task |-> [t EXCEPT !.pc = "done"], h |-> h]
    ELSE broadcast_step([t EXCEPT !.snapshot = Target(t, h.ac, h.rs)], h)

\* A send_personal_message that let the error of send_json reach its caller.
send_personal_result_reraise(failed) == IF failed THEN "SendError" ELSE None

\* What send_personal_message hands back: the except clause swallows the error.
send_personal_result(failed) == None

\* len(self.rooms.get(room, [])) of get_room_info
room_connections(rs, room) == Len(RoomListOrEmpty(rs, room))

\* get_room_info(room)
get_room_info(rs, room) ==
    [room |-> room, connections |-> room_connections(rs, room), active |-> HasRoom(rs, room)]

\* get_stats(): "rooms" is the dict comprehension over self.rooms.items(), in
\* insertion order
get_stats(ac, rs) ==
    [total_connections |-> Len(ac),
     rooms |-> [i \in 1..Len(rs) |-> [room |-> rs[i].room,
                                      connections |-> Len(rs[i].connections)]]]

--------------------------------------------------------------------------
\* full_featured_api.py: the handles the chat is run with
ChatConns == {"A", "B", "C"}

\* A handle websocket_chat has not been called for. While the task fans a
\* message out, snapshot is the copy websocket_connections[:] it iterates and
\* it the number of its items consumed; raised is the exception the task
\* ended with.
NoHandler == [pc |-> "none", snapshot |-> <<>>, it |-> 0, raised |-> None]

\* No analytics_overview has been asked for.
NoOverview == [active_websockets |-> 0, asked |-> FALSE]

\* analytics_overview(): the count it reports for the chat
analytics_overview(conns) == [active_websockets |-> Len(conns), asked |-> TRUE]

\* The handler is back at receive_json when the copy has been consumed.
fanout_next(h) ==
    IF h.it + 1 >= Len(h.snapshot)
    THEN [h EXCEPT !.pc = "receiving", !.it = 0, !.snapshot = <<>>]
    ELSE [h EXCEPT !.pc = "broadcasting", !.it = h.it + 1]

\* One pass of "for connection in websocket_connections[:]": send_json on the
\* next item of the copy; the bare except removes the connection from the
\* live list, and list.remove raises ValueError when it is not there, which
\* no except clause of the handler catches.
fanout_step(h, conns, deadset) ==
    IF h.it >= Len(h.snapshot)
    THEN [handler |-> fanout_next(h), conns |-> conns]
    ELSE LET connection == h.snapshot[h.it + 1]
         IN  IF connection \notin deadset
             THEN [handler |-> fanout_next(h), conns |-> conns]
             ELSE IF Contains(conns, connection)
                  THEN [handler |-> fanout_next(h), conns |-> Remove(conns, connection)]
                  ELSE [handler |-> [h EXCEPT !.pc = "ended", !.raised = "ValueError"],
                        conns |-> conns]

--------------------------------------------------------------------------
Hub == [ac |-> active_connections, rs |-> rooms, tk |-> tasks]

Idle == returned.kind = "none"

\* Install the outcome r of a loop step taken by the task at position i
\* (i = Len(tasks) + 1 for a coroutine called directly).
Install(r, i) ==
    /\ active_connections' = r.h.ac
    /\ rooms' = r.h.rs
    /\ IF r.task.pc = "done"
       THEN /\ tasks' = r.h.tk
            /\ returned' = r.task
       ELSE /\ tasks' = (IF i > Len(tasks) THEN Append(tasks, r.task)
                                           ELSE [tasks EXCEPT ![i] = r.task])
            /\ returned' = returned

Init ==
    /\ active_connections = <<>>
    /\ rooms = <<>>
    /\ dead = {}
    /\ tasks = <<>>
    /\ returned = NoCall
    /\ overlaps = 0
    /\ hung = {}
    /\ owner = [c \in Conns |-> NoOwner]
    /\ websocket_connections = <<>>
    /\ handler = [c \in ChatConns |-> NoHandler]
    /\ overview = NoOverview

\* A connect that is suspended between the append to the Registry and the
\* append to the room: the step that other tasks can observe ends after the
\* first of the two.
Connect_registry_first(ws, room) ==
    /\ accept(ws)
    /\ active_connections' = Append(active_connections, ws)
    /\ UNCHANGED <<rooms, tasks, returned, dead, hung>>

\* A connect that keeps the Registry free of duplicates (appends only a
\* websocket that is not in it yet) while the room lists still take one entry
\* per call.
Connect_registry_once(ws, room) ==
    /\ accept(ws)
    /\ LET ac == IF Contains(active_connections, ws) THEN active_connections
                 ELSE Append(active_connections, ws)
           rs0 == IF HasRoom(rooms, room) THEN rooms
                  ELSE Append(rooms, [room |-> room, connections |-> <<>>])
           i == RoomIndex(rs0, room)
           rs == [rs0 EXCEPT ![i].connections = Append(@, ws)]
           t == NewCall("join", "sending", ws, room, "user_joined",
                        Len(rs[i].connections), ws)
       IN  Install(broadcast_begin(t, [ac |-> ac, rs |-> rs, tk |-> tasks]),
                   Len(tasks) + 1)
    /\ UNCHANGED <<dead, hung>>

\* await manager.connect(websocket, room)
Connect(ws, room) ==
    /\ accept(ws)
    /\ LET ac == Append(active_connections, ws)
           rs0 == IF HasRoom(rooms, room) THEN rooms
                  ELSE Append(rooms, [room |-> room, connections |-> <<>>])
           i == RoomIndex(rs0, room)
           rs == [rs0 EXCEPT ![i].connections = Append(@, ws)]
           t == NewCall("join", "sending", ws, room, "user_joined",
                        Len(rs[i].connections), ws)
       IN  Install(broadcast_begin(t, [ac |-> ac, rs |-> rs, tk |-> tasks]),
                   Len(tasks) + 1)
    /\ UNCHANGED <<dead, hung>>

\* manager.disconnect(websocket), called directly
Disconnect(ws) ==
    /\ LET h == disconnect(Hub, ws)
       IN  /\ active_connections' = h.ac
           /\ rooms' = h.rs
           /\ tasks' = h.tk
    /\ returned' = [NewCall("disconnect", "done", ws, None, None, 0, None)
                        EXCEPT !.snapshot = active_connections]
    /\ UNCHANGED <<dead, hung>>

\* await manager.send_personal_message(message, websocket)
SendPersonalMessage(ws) ==
    /\ LET ok == send_json(ws)
           h == IF ok \/ send_hangs(ws) THEN Hub ELSE disconnect(Hub, ws)
           t == [NewCall("personal", "done", ws, None, "personal", 0, None)
                    EXCEPT !.attempted = <<ws>>]
       IN  /\ active_connections' = h.ac
           /\ rooms' = h.rs
           /\ IF send_hangs(ws)
              THEN /\ tasks' = Append(h.tk, [t EXCEPT !.pc = "hung"])
                   /\ returned' = returned
              ELSE /\ tasks' = h.tk
                   /\ returned' = [t EXCEPT !.delivered = IF ok THEN <<ws>> ELSE <<>>,
                                            !.failed = ~ok,
                                            !.result = send_personal_result(~ok)]
    /\ UNCHANGED <<dead, hung>>

\* await manager.broadcast_to_room(room, message, exclude)
BroadcastToRoom(room, exclude) ==
    /\ Install(broadcast_begin(NewCall("room", "sending", None, room, "chat", 0, exclude), Hub),
               Len(tasks) + 1)
    /\ UNCHANGED <<dead, hung>>

\* await manager.broadcast_to_room(room, chat_message), called by the
\* websocket_endpoint task of ws
BroadcastToRoomFrom(ws, room) ==
    /\ Install(broadcast_begin(NewCall("room", "sending", ws, room, "chat", 0, None), Hub),
               Len(tasks) + 1)
    /\ UNCHANGED <<dead, hung>>

\* await manager.broadcast_to_all(message)
BroadcastToAll ==
    /\ Install(broadcast_begin(NewCall("all", "sending", None, None, "admin_broadcast", 0, None), Hub),
               Len(tasks) + 1)
    /\ UNCHANGED <<dead, hung>>

\* await manager.broadcast_to_all(broadcast_message), called by the
\* websocket_endpoint task of ws
BroadcastToAllFrom(ws) ==
    /\ Install(broadcast_begin(NewCall("all", "sending", ws, None, "admin_broadcast", 0, None), Hub),
               Len(tasks) + 1)
    /\ UNCHANGED <<dead, hung>>

\* The loop runs the oldest task made by asyncio.create_task in disconnect.
StartTask ==
    /\ Idle
    /\ \E i \in 1..Len(tasks) :
          /\ tasks[i].pc = "scheduled"
          /\ \A j \in 1..(i - 1) : tasks[j].pc # "scheduled"
          /\ Install(broadcast_begin([tasks[i] EXCEPT !.pc = "sending"],
                                     [ac |-> active_connections, rs |-> rooms,
                                      tk |-> RemoveAt(tasks, i)]), i)
    /\ UNCHANGED <<dead, overlaps, hung, owner>>
    /\ UNCHANGED chat_vars

\* A coroutine suspended in send_json is resumed.
Resume ==
    /\ Idle
    /\ \E i \in 1..Len(tasks) :
          /\ tasks[i].pc = "sending"
          /\ Install(broadcast_step(tasks[i],
                                    [ac |-> active_connections, rs |-> rooms,
                                     tk |-> RemoveAt(tasks, i)]), i)
    /\ UNCHANGED <<dead, overlaps, hung, owner>>
    /\ UNCHANGED chat_vars

\* The peer of a tracked handle goes away: every later send_json raises.
Die(ws) ==
    /\ Idle
    /\ ws \notin dead
    /\ ws \notin hung
    /\ Contains(active_connections, ws)
    /\ dead' = dead \cup {ws}
    /\ UNCHANGED <<active_connections, rooms, tasks, returned, overlaps, hung, owner>>
    /\ UNCHANGED chat_vars

\* The caller takes the outcome of the call that returned.
Return ==
    /\ ~Idle
    /\ returned' = NoCall
    /\ owner' = IF /\ returned.kind \in {"join", "room", "personal", "all"}
                   /\ returned.ws # None
                   /\ owner[returned.ws].pc \in {"joining", "handling"}
                THEN [owner EXCEPT ![returned.ws].pc = "receiving"]
                ELSE owner
    /\ UNCHANGED <<active_connections, rooms, dead, tasks, overlaps, hung>>
    /\ UNCHANGED chat_vars

\* A task of the application other than a tracked websocket_endpoint calls the
\* manager: after the previous call has returned, and within the bound on
\* calls that overlap a coroutine in flight.
Call(maxOverlaps) ==
    /\ Idle
    /\ tasks = <<>> \/ overlaps < maxOverlaps
    /\ overlaps' = IF tasks = <<>> THEN overlaps ELSE overlaps + 1
    /\ UNCHANGED owner
    /\ UNCHANGED chat_vars

NextWithin(maxConnections, maxOverlaps) ==
    \/ \E ws \in Conns, room \in Rooms :
          /\ Len(active_connections) < maxConnections
          /\ Call(maxOverlaps)
          /\ Connect(ws, room)
    \/ \E ws \in Conns : Call(maxOverlaps) /\ Disconnect(ws)
    \/ \E ws \in Conns : Call(maxOverlaps) /\ SendPersonalMessage(ws)
    \/ \E room \in Rooms, exclude \in Conns \cup {None} :
          Call(maxOverlaps) /\ BroadcastToRoom(room, exclude)
    \/ Call(maxOverlaps) /\ BroadcastToAll
    \/ StartTask
    \/ Resume
    \/ \E ws \in Conns : Die(ws)
    \/ Return

Next == NextWithin(MaxConnections, MaxOverlaps)

Spec == Init /\ [][Next]_vars

NextWide == NextWithin(WideConnections, WideOverlaps)

SpecWide == Init /\ [][NextWide]_vars

--------------------------------------------------------------------------
\* The two reads, called by the handlers of GET /rooms/{room}/info and
\* GET /stats and by the "get_stats" branch of the endpoint.

\* A get_room_info that looks the room up with self.rooms.setdefault(room, [])
\* and so starts tracking a room that was never joined.
GetRoomInfo_setdefault(room) ==
    /\ Idle
    /\ returned' = [NewCall("room_info", "done", None, room, None, 0, None)
                        EXCEPT !.info = get_room_info(rooms, room)]
    /\ rooms' = IF HasRoom(rooms, room) THEN rooms
                ELSE Append(rooms, [room |-> room, connections |-> <<>>])
    /\ UNCHANGED <<active_connections, dead, tasks, overlaps, hung, owner>>
    /\ UNCHANGED chat_vars

\* manager.get_room_info(room)
GetRoomInfo(room) ==
    /\ Idle
    /\ returned' = [NewCall("room_info", "done", None, room, None, 0, None)
                        EXCEPT !.info = get_room_info(rooms, room)]
    /\ UNCHANGED <<active_connections, rooms, dead, tasks, overlaps, hung, owner>>
    /\ UNCHANGED chat_vars

\* manager.get_stats()
GetStats ==
    /\ Idle
    /\ returned' = [NewCall("stats", "done", None, None, None, 0, None)
                        EXCEPT !.stats = get_stats(active_connections, rooms)]
    /\ UNCHANGED <<active_connections, rooms, dead, tasks, overlaps, hung, owner>>
    /\ UNCHANGED chat_vars

NextRead ==
    \/ NextWithin(MaxConnections, MaxOverlaps)
    \/ \E room \in Rooms : GetRoomInfo(room)
    \/ GetStats

SpecRead == Init /\ [][NextRead]_vars

--------------------------------------------------------------------------
\* Peers that stop reading.

\* The peer of a tracked handle stops reading: every later send_json to it
\* stays pending for ever.
Hang(ws) ==
    /\ Idle
    /\ ws \notin dead
    /\ ws \notin hung
    /\ Contains(active_connections, ws)
    /\ hung' = hung \cup {ws}
    /\ UNCHANGED <<active_connections, rooms, dead, tasks, returned, overlaps, owner>>
    /\ UNCHANGED chat_vars

NextHang ==
    \/ NextWithin(MaxConnections, MaxOverlaps)
    \/ \E ws \in Conns : Hang(ws)

SpecHang == Init /\ [][NextHang]_vars

--------------------------------------------------------------------------
\* websocket_endpoint(websocket, room): one task per handle.

\* The message types the receive loop tells apart by the call they lead to:
\* "chat" (broadcast_to_room), "broadcast" with the admin key
\* (broadcast_to_all), and "ping" for every type answered with
\* send_personal_message.
MessageTypes == {"chat", "ping", "broadcast"}

\* What can be thrown into the task at await websocket.receive_json().
Raised == {"WebSocketDisconnect", "Exception", "CancelledError"}

\* The except clauses of the endpoint: WebSocketDisconnect, and Exception with
\* its subclasses; asyncio.CancelledError derives from BaseException.
endpoint_handles(exc) == exc \in {"WebSocketDisconnect", "Exception"}

\* await manager.connect(websocket, room), first statement of the endpoint
EndpointConnect(ws, room) ==
    /\ Idle
    /\ owner[ws].pc = "none"
    /\ Connect(ws, room)
    /\ owner' = [owner EXCEPT ![ws].pc = "joining", ![ws].room = room]
    /\ UNCHANGED overlaps
    /\ UNCHANGED chat_vars

\* The chat messages one websocket_endpoint task broadcasts in a run.
MaxChats == 2

\* The number of chat messages the task of ws has broadcast, after a message
\* of this type.
chats_after(ws, type) == IF type = "chat" THEN owner[ws].chats + 1 ELSE owner[ws].chats

\* The receive loop with the manager's coroutine handed to asyncio.create_task
\* instead of awaited: the task is back at receive_json at once.
EndpointReceive_nowait(ws, type) ==
    /\ Idle
    /\ owner[ws].pc = "receiving"
    /\ ws \notin dead
    /\ chats_after(ws, type) <= MaxChats
    /\ \/ type = "chat" /\ BroadcastToRoomFrom(ws, owner[ws].room)
       \/ type = "ping" /\ SendPersonalMessage(ws)
       \/ type = "broadcast" /\ BroadcastToAllFrom(ws)
    /\ owner' = [owner EXCEPT ![ws].chats = chats_after(ws, type)]
    /\ UNCHANGED overlaps
    /\ UNCHANGED chat_vars

\* data = await websocket.receive_json() returns a message and the branch of
\* its type awaits the manager: the loop is back at receive_json when the
\* call has returned.
EndpointReceive(ws, type) ==
    /\ Idle
    /\ owner[ws].pc = "receiving"
    /\ ws \notin dead
    /\ chats_after(ws, type) <= MaxChats
    /\ \/ type = "chat" /\ BroadcastToRoomFrom(ws, owner[ws].room)
       \/ type = "ping" /\ SendPersonalMessage(ws)
       \/ type = "broadcast" /\ BroadcastToAllFrom(ws)
    /\ owner' = [owner EXCEPT ![ws].pc = "handling", ![ws].chats = chats_after(ws, type)]
    /\ UNCHANGED overlaps
    /\ UNCHANGED chat_vars

\* await websocket.receive_json() raises: the except clauses call
\* manager.disconnect for what they handle, and the task ends either way.
EndpointRaised(ws, exc) ==
    /\ Idle
    /\ owner[ws].pc = "receiving"
    /\ exc = "WebSocketDisconnect" => ws \in dead
    /\ IF endpoint_handles(exc)
       THEN Disconnect(ws)
       ELSE UNCHANGED <<active_connections, rooms, dead, tasks, returned, hung>>
    /\ owner' = [owner EXCEPT ![ws].pc = "ended"]
    /\ UNCHANGED overlaps
    /\ UNCHANGED chat_vars

NextEndpoint ==
    \/ \E ws \in Conns, room \in Rooms : EndpointConnect(ws, room)
    \/ \E ws \in Conns, type \in MessageTypes : EndpointReceive(ws, type)
    \/ \E ws \in Conns, exc \in Raised : EndpointRaised(ws, exc)
    \/ StartTask
    \/ Resume
    \/ \E ws \in Conns : Die(ws)
    \/ Return
    \/ GetStats

SpecEndpoint == Init /\ [][NextEndpoint]_vars

--------------------------------------------------------------------------
\* Properties.

\* c is in the Registry
Tracked(c) == Contains(active_connections, c)

\* c is a member of the room
InRoom(c, room) == Contains(RoomListOrEmpty(rooms, room), c)

\* c is a member of at least one room
InSomeRoom(c) == \E i \in 1..Len(rooms) : Contains(rooms[i].connections, c)

\* a call of broadcast_to_room has just returned
RoomBroadcastReturned == returned.kind \in {"room", "join", "left"}

\* a call of broadcast_to_room or broadcast_to_all has just returned
BroadcastReturned == returned.kind \in {"room", "join", "left", "all"}

\* the list a returned broadcast iterated, as it is now
ReturnedTarget ==
    IF returned.kind = "all" THEN active_connections
    ELSE RoomListOrEmpty(rooms, returned.room)

\* C1: after any sequence of connect and disconnect calls, a connection is in
\* the Registry if and only if it is a member of at least one room.
C1_RegistryIffInSomeRoom ==
    \A c \in Conns : Tracked(c) <=> InSomeRoom(c)

\* C2: from any reachable state of the hub, disconnect(c) twice in a row
\* leaves the Registry and every room as disconnect(c) once does.
C2_LeaveIdempotent ==
    \A c \in Conns :
        LET once == disconnect(Hub, c)
            twice == disconnect(once, c)
        IN  twice.ac = once.ac /\ twice.rs = once.rs

\* C3: broadcast_to_room(room, m, exclude=c) never delivers m to c, and a send
\* is attempted to every other connection that was a member of the room when
\* the call started.
C3_ExcludedNeverOthersAlways ==
    RoomBroadcastReturned =>
        /\ ~Contains(returned.delivered, returned.exclude)
        /\ \A c \in Elems(returned.snapshot) \ {returned.exclude} :
              Contains(returned.attempted, c)

\* C4: after a broadcast in which k of the n targeted members had a failing
\* send, exactly those k are removed from all rooms and from the Registry, and
\* the other n-k received the message and are still members.  Stated for the
\* runs in which no call overlapped a coroutine in flight, so that no other
\* task joins or leaves while the broadcast is suspended.
C4_FailedRemovedOthersDelivered ==
    (BroadcastReturned /\ overlaps = 0) =>
        LET targeted == Elems(returned.snapshot) \ {returned.exclude}
            failing == Elems(returned.disconnected)
        IN  /\ \A c \in failing : ~Tracked(c) /\ ~InSomeRoom(c)
            /\ \A c \in targeted \ failing :
                  /\ Contains(returned.delivered, c)
                  /\ Contains(ReturnedTarget, c)

C6_FailedSendLeaves ==
    (returned.kind = "personal" /\ returned.failed) =>
        ~Tracked(returned.ws) /\ ~InSomeRoom(returned.ws)

\* C7: a connection appears at most once in the Registry and at most once in
\* the member list of any room.
C7_AtMostOnce ==
    \A c \in Conns :
        /\ Count(active_connections, c) <= 1
        /\ \A i \in 1..Len(rooms) : Count(rooms[i].connections, c) <= 1

\* C8: after disconnect(c) returns, c is in no room and not in the Registry,
\* however many connect calls added it.
C8_LeaveScrubsAll ==
    returned.kind = "disconnect" =>
        ~Tracked(returned.ws) /\ ~InSomeRoom(returned.ws)

\* C9: connect(c, r) sends one user_joined event to every other member r had
\* at the time of the join and none to c, and the event carries the size of r
\* after c was added.  Stated for the runs in which no call overlapped a
\* coroutine in flight.
C9_JoinNotifiesOthersOnce ==
    (returned.kind = "join" /\ overlaps = 0) =>
        /\ ~Contains(returned.attempted, returned.ws)
        /\ \A c \in Elems(returned.snapshot) \ {returned.ws} :
              Count(returned.attempted, c) = 1
        /\ returned.message.type = "user_joined"
        /\ returned.message.connections = Len(returned.snapshot)

\* C10: connect never fails: whatever sends of the user_joined broadcast fail,
\* connect completes without an error, the joining connection is a member of
\* the room and of the Registry, and the failed members are gone from the
\* rooms and the Registry.  Stated for the runs in which no call overlapped a
\* coroutine in flight, so that no other task leaves while connect is suspended.
C10_JoinNeverFails ==
    (returned.kind = "join" /\ overlaps = 0) =>
        /\ returned.result = None
        /\ Tracked(returned.ws)
        /\ InRoom(returned.ws, returned.room)
        /\ \A c \in Elems(returned.disconnected) : ~Tracked(c) /\ ~InSomeRoom(c)

\* C11: for every room disconnect(c) removed c from, a user_left event that
\* carries the room's size after the removal reaches each remaining member;
\* for a room that became empty no send is attempted; for a room c was not in
\* no user_left is issued.  Read when the deferred broadcast returns, for the
\* remaining members that are still in the room then.
C11_UserLeftReachesRemaining ==
    /\ returned.kind = "left" =>
          /\ returned.message.type = "user_left"
          /\ returned.message.connections = Len(returned.remaining)
          /\ returned.remaining = <<>> => returned.attempted = <<>>
          /\ \A c \in Elems(returned.remaining) :
                InRoom(c, returned.room) => Contains(returned.delivered, c)
    /\ \A c \in Conns :
          LET h == disconnect([Hub EXCEPT !.tk = <<>>], c)
          IN  \A k \in 1..Len(h.tk) : InRoom(c, h.tk[k].room)

\* C12: disconnect on a connection that is not in the Registry is a no-op: it
\* raises nothing, leaves the Registry, every room and the scheduled tasks as
\* they are, and the call returns normally.
C12_UntrackedLeaveNoOp ==
    /\ \A c \in Conns : ~Tracked(c) => disconnect(Hub, c) = Hub
    /\ (returned.kind = "disconnect" /\ ~Contains(returned.snapshot, returned.ws)) =>
          /\ active_connections = returned.snapshot
          /\ returned.result = None

\* disconnect has returned from a call on a connection that was not tracked,
\* while other connections were.
C12_UntrackedLeaveReturned ==
    /\ returned.kind = "disconnect"
    /\ ~Contains(returned.snapshot, returned.ws)
    /\ returned.snapshot # <<>>
    /\ \E i \in 1..Len(rooms) : rooms[i].connections # <<>>

\* C13: broadcast_to_room on a room name that was never joined is a silent
\* no-op: no send is attempted, nothing is raised, no room entry is created
\* and the Registry, the rooms and the tasks are unchanged.
C13_UnknownRoomNoOp ==
    /\ \A room \in Rooms, exclude \in Conns \cup {None} :
          ~HasRoom(rooms, room) =>
              LET r == broadcast_begin(
                           NewCall("room", "sending", None, room, "chat", 0, exclude), Hub)
              IN  /\ r.h = Hub
                  /\ r.task.pc = "done"
                  /\ r.task.attempted = <<>>
                  /\ r.task.result = None
    /\ (returned.kind = "room" /\ ~HasRoom(rooms, returned.room)) =>
          /\ returned.attempted = <<>>
          /\ returned.disconnected = <<>>
          /\ returned.result = None

\* broadcast_to_room has returned from a call on a room that was never joined,
\* while another room has members.
C13_UnknownRoomReturned ==
    /\ returned.kind = "room"
    /\ ~HasRoom(rooms, returned.room)
    /\ active_connections # <<>>

\* C14: every broadcast path catches the failure of a send to one member: the
\* call returns normally, and the loop goes on to the members after a failing
\* one (a step ends the call only when no member is left to visit).
C14_SendFailuresCaught ==
    /\ BroadcastReturned => returned.result = None
    /\ \A i \in 1..Len(tasks) :
          tasks[i].pc = "sending" =>
              LET t == tasks[i]
                  h == [Hub EXCEPT !.tk = RemoveAt(tasks, i)]
                  list == Target(t, h.ac, h.rs)
                  j == NextIt(list, t.it, t.exclude)
                  r == broadcast_step(t, h)
              IN  /\ r.task.result = None
                  /\ j # 0 => /\ r.task.pc = "sending"
                              /\ r.task.attempted = Append(t.attempted, list[j])

\* A broadcast has returned normally after a send that failed and a later
\* send, to another member, that was delivered.
C14_FailureThenDelivery ==
    /\ BroadcastReturned
    /\ returned.result = None
    /\ \E i, j \in 1..Len(returned.attempted) :
          /\ i < j
          /\ Contains(returned.disconnected, returned.attempted[i])
          /\ Contains(returned.delivered, returned.attempted[j])
          /\ returned.attempted[i] # returned.attempted[j]

\* C15: broadcast_to_all attempts a send to every connection that was in the
\* Registry when the call started, with no exclusion; the failed connections
\* are removed only after the whole pass (the cleanup is the last step).
C15_AllAttemptsWholeRegistry ==
    returned.kind = "all" =>
        /\ returned.exclude = None
        /\ \A c \in Elems(returned.snapshot) : Contains(returned.attempted, c)

\* C16: a join or leave by another task while a broadcast is suspended in a
\* send cannot make it skip a connection that was a member when it started
\* (and still is one), nor visit a connection more often than it was listed.
\* Read for target lists that hold every connection at most once.
C16_NoSkipNoDoubleVisit ==
    (BroadcastReturned /\ \A c \in Conns : Count(ReturnedTarget, c) <= 1) =>
        \A c \in Elems(returned.snapshot) :
            /\ (c # returned.exclude /\ Contains(ReturnedTarget, c)) =>
                  Contains(returned.attempted, c)
            /\ Count(returned.attempted, c) <= Count(returned.snapshot, c)

\* C17: a connection that joins the room (or the Registry) after a broadcast
\* has started does not receive that broadcast's message: the receivers are
\* among the members the target list had when the broadcast started.
C17_LateJoinerNotReached ==
    BroadcastReturned =>
        Elems(returned.delivered) \subseteq Elems(returned.snapshot)

\* The user_left broadcasts of connection c for a room that are created and
\* have not started yet.
LeftScheduled(tk, c, room) ==
    Cardinality({i \in 1..Len(tk) :
                    /\ tk[i].kind = "left" /\ tk[i].pc = "scheduled"
                    /\ tk[i].ws = c /\ tk[i].room = room})

\* C18: however many broadcasts, personal sends or owner leaves detect the
\* failure of the same dead connection, it is removed from each of its rooms
\* once and each room gets one user_left for its departure: a step creates at
\* most one user_left per room for a dead connection, and after that step the
\* connection is out of the room, so that no later leave notifies again.
C18_CleanupAtMostOnce ==
    [][\A c \in dead, room \in Rooms :
          LET created == LeftScheduled(tasks', c, room) - LeftScheduled(tasks, c, room)
          IN  created > 0 =>
                  /\ created = 1
                  /\ ~Contains(RoomListOrEmpty(rooms', room), c)]_vars

\* C19: a send that never completes does not keep the other members of the
\* broadcast from the message: no broadcast stays suspended in a send to a
\* hung member while a member after it, still in the target list, has not
\* been sent the message.
C19_HungSendDoesNotBlock ==
    \A i \in 1..Len(tasks) :
        (tasks[i].pc = "hung" /\ tasks[i].kind # "personal") =>
            \A c \in Elems(tasks[i].snapshot) :
                (/\ c # tasks[i].exclude
                 /\ Contains(Target(tasks[i], active_connections, rooms), c)) =>
                    Contains(tasks[i].attempted, c)

\* C20: whenever the websocket_endpoint task of a connection has ended after
\* its join, for whatever reason, disconnect has been called for it: the
\* connection is neither in the Registry nor in a room.
C20_EndedOwnerHasLeft ==
    \A ws \in Conns :
        owner[ws].pc = "ended" => ~Tracked(ws) /\ ~InSomeRoom(ws)

\* The connections that are members of the room.
Members(room) == Elems(RoomListOrEmpty(rooms, room))

\* C21: get_room_info reports 0 for a room with no current member, whether it
\* was never joined or all its members have left, and otherwise the number of
\* current members of the room.
C21_RoomInfoCountsMembers ==
    returned.kind = "room_info" =>
        returned.info.connections = Cardinality(Members(returned.room))

\* C22: get_stats reports as total_connections the size of the Registry, the
\* set of the connections tracked at call time.
C22_TotalIsRegistrySize ==
    returned.kind = "stats" =>
        returned.stats.total_connections = Cardinality(Elems(active_connections))

\* C23: the per-room counts of get_stats map each listed room to its current
\* member count, list every room with at least one member and list no room
\* that was never joined.
C23_PerRoomCounts ==
    returned.kind = "stats" =>
        LET listed == returned.stats.rooms
        IN  /\ \A i \in 1..Len(listed) :
                  /\ HasRoom(rooms, listed[i].room)
                  /\ listed[i].connections = Cardinality(Members(listed[i].room))
            /\ \A room \in Rooms :
                  Members(room) # {} => \E i \in 1..Len(listed) : listed[i].room = room

\* C24: within one broadcast disconnect is called only after the pass over
\* the members has completed (a step that finds a member to visit leaves the
\* lists and the tasks as they are), and at most once per connection whose
\* send failed in that broadcast.
C24_TwoPhaseCleanup ==
    /\ \A i \in 1..Len(tasks) :
          tasks[i].pc = "sending" =>
              LET t == tasks[i]
                  h == [Hub EXCEPT !.tk = RemoveAt(tasks, i)]
              IN  NextIt(Target(t, h.ac, h.rs), t.it, t.exclude) # 0 =>
                      broadcast_step(t, h).h = h
    /\ BroadcastReturned =>
          \A c \in Conns : Count(returned.disconnected, c) <= 1

\* C25: send_personal_message makes one delivery attempt per call, and after a
\* failed send to c, there or in a broadcast, no second attempt is made to
\* deliver that message to c (a peer that is gone stays gone, so an attempt
\* after a failed one fails too: no connection fails twice in one broadcast).
C25_NoRetry ==
    /\ returned.kind = "personal" => returned.attempted = <<returned.ws>>
    /\ BroadcastReturned =>
          \A i, j \in 1..Len(returned.disconnected) :
              returned.disconnected[i] = returned.disconnected[j] => i = j

\* C26: disconnect neither waits for nor fails because of its user_left
\* broadcast: every broadcast it creates is a task that has not started (no
\* send attempted) and that was created after the removal, and a send failure
\* inside such a task ends in the task, which completes normally.
C26_LeaveDoesNotAwaitBroadcast ==
    /\ \A c \in Conns :
          LET h == disconnect(Hub, c)
          IN  \A k \in (Len(tasks) + 1)..Len(h.tk) :
                  /\ h.tk[k].pc = "scheduled"
                  /\ h.tk[k].attempted = <<>>
                  /\ h.tk[k].remaining = RoomListOrEmpty(h.rs, h.tk[k].room)
    /\ returned.kind = "disconnect" => returned.result = None
    /\ returned.kind = "left" => returned.result = None

\* A user_left broadcast created by disconnect has run as a task and a send in
\* it has failed.
C26_DeferredSendFailed ==
    /\ returned.kind = "left"
    /\ returned.disconnected # <<>>

\* C27: the Registry update and the room updates of one connect or disconnect
\* happen in one step of the loop, with nothing interleaved: a step adds c to
\* the Registry exactly when it adds c to a room, a step that removes c from
\* the Registry removes it from every room that held it, and a step that
\* removes c from a room removes it from the Registry if it was there.
C27_MutationsSerialized ==
    [][\A c \in Conns :
          LET inRoom(rs, room) == Count(RoomListOrEmpty(rs, room), c)
              gained == \E room \in Rooms : inRoom(rooms', room) > inRoom(rooms, room)
              lost == \E room \in Rooms : inRoom(rooms', room) < inRoom(rooms, room)
          IN  /\ Count(active_connections', c) > Count(active_connections, c) <=> gained
              /\ Count(active_connections', c) < Count(active_connections, c) =>
                    \A room \in Rooms :
                        inRoom(rooms, room) > 0 => inRoom(rooms', room) < inRoom(rooms, room)
              /\ lost => \/ Count(active_connections, c) = 0
                         \/ Count(active_connections', c) < Count(active_connections, c)]_vars

\* disconnect has removed a connection while a broadcast of another call was
\* suspended in a send.
C27_LeaveDuringBroadcast ==
    /\ returned.kind = "disconnect"
    /\ Contains(returned.snapshot, returned.ws)
    /\ \E i \in 1..Len(tasks) : tasks[i].pc = "sending" /\ tasks[i].kind # "left"

\* C28: get_room_info and get_stats are pure reads: a call of either, for any
\* room name, leaves the Registry, every room's list and the tracked rooms as
\* they are and creates no task.
C28_ReadsArePure ==
    [][returned'.kind \in {"room_info", "stats"} =>
          UNCHANGED <<active_connections, rooms, tasks>>]_vars

\* get_room_info has returned for a room that was never joined, while
\* connections are tracked in another room.
C28_UnknownRoomRead ==
    /\ returned.kind = "room_info"
    /\ ~returned.info.active
    /\ returned.info.connections = 0
    /\ active_connections # <<>>

\* C29: for one departure of a connection from a room, each connection that
\* remains a member receives the user_left event of that departure at most
\* once: the broadcast created by one disconnect delivers to no connection
\* twice.
C29_NoDoubleNotification ==
    returned.kind = "left" =>
        \A c \in Elems(returned.remaining) : Count(returned.delivered, c) <= 1

\* C30: after any sequence of calls, repeated joins of one connection
\* included, every connection that is a member of some room is in the
\* Registry.
C30_RoomsWithinRegistry ==
    \A c \in Conns : InSomeRoom(c) => Tracked(c)

\* disconnect has returned for a connection that had joined more than once:
\* it is still a member of a room.
C30_LeftAfterRepeatedJoin ==
    /\ returned.kind = "disconnect"
    /\ Count(returned.snapshot, returned.ws) > 1
    /\ InSomeRoom(returned.ws)

\* The entries of connection c in the Registry and in every room of hub h.
Entries(h, c) ==
    <<Count(h.ac, c), [i \in 1..Len(h.rs) |-> Count(h.rs[i].connections, c)]>>

\* The first step of broadcast_to_room(room, m, exclude) called now.
RoomCallNow(room, exclude) ==
    broadcast_begin(NewCall("room", "sending", None, room, "chat", 0, exclude), Hub)

\* C31: broadcast_to_room delivers only to connections that are in the room's
\* list when they are sent the message, and changes the membership of no
\* connection but the members whose send failed: read on every step a room
\* broadcast can take, a call made now and a resumption of one in flight.
C31_RoomIsolation ==
    /\ \A room \in Rooms, exclude \in Conns \cup {None} :
          LET r == RoomCallNow(room, exclude)
          IN  /\ \A c \in Elems(r.task.attempted) : InRoom(c, room)
              /\ \A c \in Conns : Entries(r.h, c) = Entries(Hub, c)
    /\ \A i \in 1..Len(tasks) :
          (tasks[i].pc = "sending" /\ tasks[i].kind \in {"room", "join", "left"}) =>
              LET t == tasks[i]
                  h == [Hub EXCEPT !.tk = RemoveAt(tasks, i)]
                  r == broadcast_step(t, h)
              IN  /\ \A k \in (Len(t.attempted) + 1)..Len(r.task.attempted) :
                        InRoom(r.task.attempted[k], t.room)
                  /\ \A c \in Conns \ Elems(t.disconnected) : Entries(r.h, c) = Entries(h, c)

\* A broadcast to one room has returned after the send to a member failed,
\* while a connection that is only in another room was sent nothing.
C31_OtherRoomUntouched ==
    /\ returned.kind = "room"
    /\ returned.disconnected # <<>>
    /\ \E c \in Conns :
          /\ InSomeRoom(c)
          /\ ~InRoom(c, returned.room)
          /\ ~Contains(returned.attempted, c)

\* C32: the chain disconnect -> deferred user_left broadcast -> newly detected
\* send failures -> further disconnect ends with the dead connections it
\* reached removed: when a user_left broadcast returns, every connection whose
\* send failed in it is out of the Registry and of every room, and every
\* connection it delivered to that is still alive and was not touched by
\* another call is still in the room.
C32_CascadeRemovesDead ==
    returned.kind = "left" =>
        /\ \A c \in Elems(returned.disconnected) : ~Tracked(c) /\ ~InSomeRoom(c)
        /\ overlaps = 0 =>
              \A c \in Elems(returned.delivered) : InRoom(c, returned.room)

\* The connections a broadcast coroutine would still visit if the lists
\* stayed as they are: the entries of its target list after its iterator.
StillToVisit(t) ==
    IF t.kind # "all" /\ ~HasRoom(rooms, t.room) THEN {}
    ELSE LET list == Target(t, active_connections, rooms)
         IN  {list[k] : k \in {n \in 1..Len(list) : n > t.it /\ list[n] # t.exclude}}

\* C33: once disconnect(c) has completed the hub attempts no further send to
\* c, neither from a broadcast in flight nor from a deferred user_left task:
\* when disconnect returns, no suspended or scheduled broadcast has c ahead of
\* its iterator.
C33_NoSendAfterLeave ==
    returned.kind = "disconnect" =>
        \A i \in 1..Len(tasks) :
            (tasks[i].kind # "personal" /\ tasks[i].pc \in {"scheduled", "sending"}) =>
                returned.ws \notin StillToVisit(tasks[i])

\* C34: the user_left event for the departure of c from a room is delivered
\* only to connections that were members of the room at the moment c left: a
\* connection that joins between the disconnect and the run of the deferred
\* broadcast does not receive it.
C34_UserLeftOnlyToThenMembers ==
    returned.kind = "left" =>
        Elems(returned.delivered) \subseteq Elems(returned.remaining)

--------------------------------------------------------------------------
\* The broadcasts of chat messages the websocket_endpoint task of ws has in
\* flight.
ChatsInFlight(ws) ==
    {i \in 1..Len(tasks) : tasks[i].kind = "room" /\ tasks[i].ws = ws}

\* C35: when one task issues broadcast_to_room(r, m1) and, after it has
\* returned, broadcast_to_room(r, m2), every receiver of both gets m1 before
\* m2: every send of m1 is made before the call returns, so the task never has
\* two broadcasts in flight, it waits in its branch while one is in flight, and
\* when a broadcast has returned to it none of its sends is still to come.
C35_OneBroadcastAtATime ==
    \A ws \in Conns :
        /\ Cardinality(ChatsInFlight(ws)) <= 1
        /\ ChatsInFlight(ws) # {} =>
               /\ owner[ws].pc = "handling"
               /\ ~(returned.kind \in {"room", "all", "personal"} /\ returned.ws = ws)
        /\ (returned.kind = "room" /\ returned.ws = ws) =>
               /\ returned.pc = "done"
               /\ Len(returned.delivered) <= Len(returned.attempted)

\* The second chat message of a task has returned after it reached two
\* receivers, while a coroutine of another task is in flight.
C35_SecondChatDelivered ==
    /\ returned.kind = "room"
    /\ returned.ws # None
    /\ owner[returned.ws].chats = 2
    /\ Len(returned.delivered) = 2
    /\ tasks # <<>>

\* The sum of the per-room counts of the dict get_stats returned.
RECURSIVE room_total(_)
room_total(counts) ==
    IF counts = <<>> THEN 0 ELSE Head(counts).connections + room_total(Tail(counts))

\* C36: with every connection joined once by websocket_endpoint and removed
\* only by disconnect, total_connections of get_stats() equals the sum of the
\* per-room member counts, in every reachable state and in every dict
\* get_stats handed out.
C36_TotalIsSumOfRooms ==
    /\ get_stats(active_connections, rooms).total_connections
            = room_total(get_stats(active_connections, rooms).rooms)
    /\ returned.kind = "stats" =>
            returned.stats.total_connections = room_total(returned.stats.rooms)

\* get_stats has returned a non-zero total after an endpoint task has ended.
C36_StatsAfterLeave ==
    /\ returned.kind = "stats"
    /\ returned.stats.total_connections > 0
    /\ \E ws \in Conns : owner[ws].pc = "ended" /\ ~Tracked(ws)

\* C37: a chat message of the endpoint of a member of r is broadcast to r
\* without exclusion: it is sent to every connection that is a member of r
\* from the call to its return, the sender included, and to no connection
\* outside r; the reply to ping, get_stats or an unknown type is sent to the
\* requesting connection only.
C37_ChatReachesWholeRoom ==
    /\ (returned.kind = "room" /\ returned.ws # None) =>
          /\ returned.exclude = None
          /\ \A c \in Conns :
                (Contains(returned.snapshot, c) /\ InRoom(c, returned.room)) =>
                    Contains(returned.attempted, c)
          /\ \A c \in Elems(returned.attempted) : owner[c].room = returned.room
    /\ returned.kind = "personal" => returned.attempted = <<returned.ws>>

--------------------------------------------------------------------------
\* full_featured_api.py, websocket_chat

\* await websocket.accept(); websocket_connections.append(websocket); the
\* welcome send_json is called
ChatAccept(ws) ==
    /\ handler[ws].pc = "none"
    /\ IF accept(ws)
       THEN /\ websocket_connections' = Append(websocket_connections, ws)
            /\ handler' = [handler EXCEPT ![ws].pc = "welcome"]
       ELSE /\ handler' = [handler EXCEPT ![ws].pc = "ended", ![ws].raised = "AcceptError"]
            /\ UNCHANGED websocket_connections
    /\ UNCHANGED <<dead, overview>>
    /\ UNCHANGED hub_vars

\* The welcome send_json, made before the try statement, returns or raises.
ChatWelcomed(ws) ==
    /\ handler[ws].pc = "welcome"
    /\ handler' = IF send_json(ws)
                  THEN [handler EXCEPT ![ws].pc = "receiving"]
                  ELSE [handler EXCEPT ![ws].pc = "ended", ![ws].raised = "SendError"]
    /\ UNCHANGED <<websocket_connections, dead, overview>>
    /\ UNCHANGED hub_vars

\* data = await websocket.receive_json() returns a message: the handler
\* copies the list and makes the first send_json of the fan-out.
ChatReceive(ws) ==
    /\ handler[ws].pc = "receiving"
    /\ ws \notin dead
    /\ LET r == fanout_step([handler[ws] EXCEPT !.snapshot = websocket_connections, !.it = 0],
                            websocket_connections, dead)
       IN  /\ handler' = [handler EXCEPT ![ws] = r.handler]
           /\ websocket_connections' = r.conns
    /\ UNCHANGED <<dead, overview>>
    /\ UNCHANGED hub_vars

\* The send_json the fan-out of ws was suspended in has completed; the next
\* one is made.
ChatSend(ws) ==
    /\ handler[ws].pc = "broadcasting"
    /\ LET r == fanout_step(handler[ws], websocket_connections, dead)
       IN  /\ handler' = [handler EXCEPT ![ws] = r.handler]
           /\ websocket_connections' = r.conns
    /\ UNCHANGED <<dead, overview>>
    /\ UNCHANGED hub_vars

\* receive_json raises WebSocketDisconnect: except WebSocketDisconnect calls
\* websocket_connections.remove(websocket).
ChatDisconnect(ws) ==
    /\ handler[ws].pc = "receiving"
    /\ ws \in dead
    /\ IF Contains(websocket_connections, ws)
       THEN /\ websocket_connections' = Remove(websocket_connections, ws)
            /\ handler' = [handler EXCEPT ![ws].pc = "ended"]
       ELSE /\ handler' = [handler EXCEPT ![ws].pc = "ended", ![ws].raised = "ValueError"]
            /\ UNCHANGED websocket_connections
    /\ UNCHANGED <<dead, overview>>
    /\ UNCHANGED hub_vars

\* The peer of a handle goes away: accept and every later send_json raise, and
\* receive_json raises WebSocketDisconnect.
ChatDie(ws) ==
    /\ ws \notin dead
    /\ dead' = dead \cup {ws}
    /\ UNCHANGED chat_vars
    /\ UNCHANGED hub_vars

\* GET /analytics/overview
AnalyticsOverview ==
    /\ overview' = analytics_overview(websocket_connections)
    /\ UNCHANGED <<websocket_connections, handler, dead>>
    /\ UNCHANGED hub_vars

NextChat ==
    \/ \E ws \in ChatConns : ChatAccept(ws)
    \/ \E ws \in ChatConns : ChatWelcomed(ws)
    \/ \E ws \in ChatConns : ChatReceive(ws)
    \/ \E ws \in ChatConns : ChatSend(ws)
    \/ \E ws \in ChatConns : ChatDisconnect(ws)
    \/ \E ws \in ChatConns : ChatDie(ws)
    \/ AnalyticsOverview

SpecChat == Init /\ [][NextChat]_vars

\* The handles whose websocket_chat task is running.
LiveHandlers == {c \in ChatConns : handler[c].pc \in {"welcome", "receiving", "broadcasting"}}

\* C38: in websocket_chat, removing a failed connection from
\* websocket_connections never raises: no handler ends with the ValueError of
\* list.remove, whether the connection was found dead by two fan-outs or by a
\* fan-out and its own handler.
C38_RemoveNeverRaises ==
    \A c \in ChatConns : handler[c].raised # "ValueError"

\* C39: a connection whose websocket_chat task has ended is not in
\* websocket_connections, and the active_websockets of analytics_overview is
\* the number of connections with a running handler.
C39_EndedHandlerNotListed ==
    /\ \A c \in ChatConns :
          handler[c].pc = "ended" => ~Contains(websocket_connections, c)
    /\ analytics_overview(websocket_connections).active_websockets
          = Cardinality(LiveHandlers)
====
